---- MODULE Spec2Model ----
(***************************************************************************)
(* FRACAS backend (backend/api): the relational store of User, Team,      *)
(* Subsystem, Record and Comment (models.py), the registration validation *)
(* (validations.py, serializers.py) and the viewsets' operations          *)
(* (views.py).                                                            *)
(*                                                                        *)
(* Text values are sequences of one-character strings, so that strip()    *)
(* and the case folding of __iexact are computed and not assumed.         *)
(* Primary keys are the positive integers an AutoField hands out; the     *)
(* null reference is 0.                                                   *)
(***************************************************************************)
EXTENDS Integers, Sequences, FiniteSets, TLC

VARIABLES
    users,          \* pk -> [email, username, first_name, last_name,
                    \*        password, team, is_staff, is_admin]
    teams,          \* pk -> [team_name, team_lead]
    subsystems,     \* pk -> [subsystem_name, parent_team]
    records,        \* pk -> [record_creator, subsystem, status, is_reviewed]
    comments,       \* pk -> [record_id, parent_comment_id, commenter]
    nextId,         \* entity -> the next primary key its AutoField hands out
    reg,            \* the registration requests in flight (concurrent model)
    last            \* the last request handled and its response

vars == <<users, teams, subsystems, records, comments, nextId, reg, last>>

\* ---------------------------------------------------------------- bounds

MaxUsers == 2
MaxTeams == 2
MaxSubsystems == 2
MaxRecords == 2
MaxComments == 3
MaxRequests == 2

\* ---------------------------------------------------------------- values

NULL == 0

Entities == {"user", "team", "subsystem", "record", "comment"}

\* validations.py:30, the shortest password register_validation accepts
MinPasswordLength == 8

Rep(c, n) == [i \in 1..n |-> c]

\* str.strip(): the text without its leading and trailing blanks
RECURSIVE LStrip(_)
LStrip(s) ==
    IF s = <<>> THEN <<>>
    ELSE IF Head(s) = " " THEN LStrip(Tail(s)) ELSE s

RECURSIVE RStrip(_)
RStrip(s) ==
    IF s = <<>> THEN <<>>
    ELSE IF s[Len(s)] = " " THEN RStrip(SubSeq(s, 1, Len(s) - 1)) ELSE s

Strip(s) == RStrip(LStrip(s))

\* the case folding the store applies for __iexact
LowerChar(c) ==
    CASE c = "A" -> "a"
      [] c = "B" -> "b"
      [] OTHER -> c

Lower(s) == [i \in 1..Len(s) |-> LowerChar(s[i])]

IExact(a, b) == Lower(a) = Lower(b)

\* the characters of the model's texts in the order of their code points,
\* the order in which the store compares texts
Alphabet ==
    <<" ", "A", "B", "D", "J", "a", "b", "e", "f", "p", "q", "u", "v">>

CodePoint(c) == CHOOSE i \in 1..Len(Alphabet) : Alphabet[i] = c

\* a < b for texts, character by character
RECURSIVE TextLess(_, _)
TextLess(a, b) ==
    IF b = <<>> THEN FALSE
    ELSE IF a = <<>> THEN TRUE
    ELSE IF Head(a) # Head(b) THEN CodePoint(Head(a)) < CodePoint(Head(b))
    ELSE TextLess(Tail(a), Tail(b))

\* ------------------------------------------------------- request inputs

SubmittedEmails == {<<>>, <<"a">>, <<" ", "a">>}
SubmittedFirstNames == {<<>>, <<"J">>}
SubmittedLastNames == {<<" ">>, <<"D">>}
SubmittedPassword1 ==
    {Rep("p", 7), <<" ">> \o Rep("p", 7) \o <<" ">>, Rep("p", 8)}
SubmittedPassword2 == {<<" ">> \o Rep("p", 8), Rep("q", 8)}
SubmittedTeams == {<<>>, <<" ", "A">>, <<"b">>}
SubmittedUsernames == {<<"u">>, <<"v">>}

\* is_staff and is_admin as a request may carry them: the key is absent, or
\* it is the JSON value true
SubmittedPrivileges == {"absent", "true"}

TeamNames == {<<"a">>, <<"A">>}
UserEmails == {<<"a">>, <<"b">>}
SubsystemNames == {<<"e">>, <<"f">>}

\* valid registrations that differ in their email only
RaceData ==
    [email : {<<"a">>, <<"b">>}, username : SubmittedUsernames,
     first_name : {<<"J">>}, last_name : {<<"D">>},
     password1 : {Rep("p", 8)}, password2 : {<<" ">> \o Rep("p", 8)},
     team : {<<>>}, is_staff : {"absent"}, is_admin : {"absent"}]

\* a valid registration of the email e with the team name t; the username
\* is the email's text
Member(e, t) ==
    [email |-> e, username |-> e, first_name |-> <<"J">>,
     last_name |-> <<"D">>, password1 |-> Rep("p", 8),
     password2 |-> Rep("p", 8), team |-> t,
     is_staff |-> "absent", is_admin |-> "absent"]

\* the registrations of the sequential runs: every combination of the
\* submitted fields, each email with a username of its own
UsernameWith(email) == IF email = <<"a">> THEN <<"u">> ELSE <<"v">>

RegisterData ==
    {[d EXCEPT !.username = UsernameWith(d.email)] :
        d \in [email : SubmittedEmails, username : {<<>>},
               first_name : SubmittedFirstNames,
               last_name : SubmittedLastNames, password1 : SubmittedPassword1,
               password2 : SubmittedPassword2, team : SubmittedTeams,
               is_staff : {"absent"}, is_admin : {"absent"}]}

\* ------------------------------------------------------------ responses

\* the last request handled: the operation, the requesting identity, the
\* primary key of the row it addressed or created (0: none) and the response
Response(op, user, key, status, detail) ==
    [op |-> op, user |-> user, key |-> key, status |-> status,
     detail |-> detail]

NoRequest == Response("none", NULL, NULL, 0, "")

\* row sets of the store
Remove(table, pks) == [k \in DOMAIN table \ pks |-> table[k]]

Insert(table, pk, row) == table @@ (pk :> row)

\* models.py:104-108, the workflow flags of a record
WorkflowFlags ==
    {"is_record_validated", "is_analysis_validated", "is_correction_validated",
     "is_reviewed"}

RecordFlags == WorkflowFlags \cup {"is_resolved"}

\* an update that puts the workflow flags it does not mention back to False
ApplyPayloadResettingFlags(row, payload) ==
    [f \in DOMAIN row |->
        IF f \in DOMAIN payload THEN payload[f]
        ELSE IF f \in WorkflowFlags THEN FALSE
        ELSE row[f]]

\* serializer.save(): the fields of the payload replace the row's
ApplyPayload(row, payload) ==
    [f \in DOMAIN row |-> IF f \in DOMAIN payload THEN payload[f] ELSE row[f]]

\* ---------------------------------------------------------- registration

\* Team.objects.filter(team_name__iexact=team)
TeamsIExact(T, name) == {k \in DOMAIN T : IExact(T[k].team_name, name)}

\* UserModel.objects.filter(email=email).exists()
EmailExistsByUsername(U, email) == \E k \in DOMAIN U : U[k].username = email

EmailExists(U, email) == \E k \in DOMAIN U : U[k].email = email

\* validations.py:28, not email or UserModel.objects.filter(email=email).exists()
EmailTakenUntrimmed(data, U) ==
    data.email = <<>> \/ EmailExists(U, data.email)

EmailTaken(data, U) ==
    Strip(data.email) = <<>> \/ EmailExists(U, Strip(data.email))

\* validations.py:30, not password1 or len(password1) < 8
PasswordTooShortOffByOne(data) ==
    Strip(data.password1) = <<>>
    \/ Len(Strip(data.password1)) < MinPasswordLength - 1

PasswordTooShort(data) ==
    Strip(data.password1) = <<>>
    \/ Len(Strip(data.password1)) < MinPasswordLength

\* validations.py:36, not password2 or password1 != password2
PasswordMismatchByLength(data) ==
    Strip(data.password2) = <<>>
    \/ Len(Strip(data.password1)) # Len(Strip(data.password2))

PasswordMismatch(data) ==
    Strip(data.password2) = <<>>
    \/ Strip(data.password1) # Strip(data.password2)

\* validations.py:42-50, the privilege keys of the cleaned data: they are
\* set to False where the team matched, and left as submitted elsewhere
PrivilegeCleaned(submitted, matched) ==
    IF matched THEN "false" ELSE submitted

\* validations.py, register_validation: the first failing check raises; the
\* cleaned data keep the submitted email, names and every other submitted key
\* as they came and carry the trimmed password and the team's primary key
\* (or None).
\* Team.objects.get raises MultipleObjectsReturned when several stored names
\* match ignoring case.
RegisterValidation(data, U, T) ==
    LET team == Strip(data.team)
        found == TeamsIExact(T, team)
        Fail(e) == [err |-> e, clean |-> <<>>]
        Clean(t) ==
            [email |-> data.email, username |-> data.username,
             first_name |-> data.first_name,
             last_name |-> data.last_name,
             password |-> Strip(data.password1), team |-> t,
             is_staff |-> PrivilegeCleaned(data.is_staff, t # NULL),
             is_admin |-> PrivilegeCleaned(data.is_admin, t # NULL)]
    IN  IF EmailTaken(data, U) THEN Fail("DuplicateEmail")
        ELSE IF PasswordTooShort(data) THEN Fail("PasswordTooShort")
        ELSE IF Strip(data.first_name) = <<>> THEN Fail("FirstNameRequired")
        ELSE IF Strip(data.last_name) = <<>> THEN Fail("LastNameRequired")
        ELSE IF PasswordMismatch(data) THEN Fail("PasswordMismatch")
        ELSE IF team = <<>> \/ found = {}
            THEN [err |-> "", clean |-> Clean(NULL)]
        ELSE IF Cardinality(found) > 1
            THEN Fail("MultipleObjectsReturned")
        ELSE [err |-> "", clean |-> Clean(CHOOSE k \in found : TRUE)]

\* User.objects.filter(username=username).exists()
UsernameExists(U, username) == \E k \in DOMAIN U : U[k].username = username

\* serializers.py, UserRegisterSerializer (a ModelSerializer of User with
\* all its fields): is_valid runs the unique validators of the email and the
\* username fields on the trimmed values and resolves the team's primary key.
SerializerError(clean, U, T) ==
    IF EmailExists(U, Strip(clean.email)) THEN "NotUnique"
    ELSE IF UsernameExists(U, Strip(clean.username)) THEN "NotUnique"
    ELSE IF clean.team # NULL /\ clean.team \notin DOMAIN T THEN "DoesNotExist"
    ELSE ""

\* models.py:13-16, User.username and User.email are unique=True: the
\* store's constraints on the insert of a row
InsertViolatesUnique(clean, U) ==
    EmailExists(U, clean.email) \/ UsernameExists(U, clean.username)

\* serializers.py:54, User.objects.create_user(**user_data): the manager
\* stores the keyword fields it is given, as its callers rely on for
\* first_name, last_name and team (test_view.py:15-21); a privilege key that
\* is absent leaves the column's default, False
CreateUserPrivilege(given) == given = "true"

\* serializers.py, UserRegisterSerializer.create: the row create_user stores,
\* the keys of the cleaned data as its keyword arguments
UserRow(clean) ==
    [email |-> clean.email, username |-> clean.username,
     first_name |-> clean.first_name,
     last_name |-> clean.last_name, password |-> clean.password,
     team |-> clean.team,
     is_staff |-> CreateUserPrivilege(clean.is_staff),
     is_admin |-> CreateUserPrivilege(clean.is_admin)]

\* the status code of a failure: a ValidationError is answered 400, any
\* other exception leaves the view unhandled (500)
StatusOf(err) ==
    IF err \in {"MultipleObjectsReturned", "IntegrityError", "DoesNotExist"}
    THEN 500 ELSE 400

\* a request slot: no request, or a registration request and how far
\* UserRegister.post has come with it
IdleSlot ==
    [pc |-> "idle", data |-> <<>>, clean |-> <<>>, status |-> 0, detail |-> ""]

Done(slot, status, detail) ==
    [slot EXCEPT !.pc = "done", !.status = status, !.detail = detail]

\* a client posts the registration data d
RegSubmit(p, d) ==
    /\ reg[p].pc = "idle"
    /\ reg' = [reg EXCEPT ![p] = [IdleSlot EXCEPT !.pc = "received", !.data = d]]
    /\ UNCHANGED <<users, teams, subsystems, records, comments, nextId, last>>

\* views.py:44, clean_data = register_validation(request.data)
RegValidate(p) ==
    /\ reg[p].pc = "received"
    /\ LET v == RegisterValidation(reg[p].data, users, teams)
       IN  reg' = [reg EXCEPT ![p] =
                     IF v.err # "" THEN Done(@, StatusOf(v.err), v.err)
                     ELSE [@ EXCEPT !.pc = "validated", !.clean = v.clean]]
    /\ UNCHANGED <<users, teams, subsystems, records, comments, nextId, last>>

\* views.py:45-46, serializer.is_valid(raise_exception=True)
RegIsValid(p) ==
    /\ reg[p].pc = "validated"
    /\ LET s == SerializerError(reg[p].clean, users, teams)
       IN  reg' = [reg EXCEPT ![p] =
                     IF s # "" THEN Done(@, StatusOf(s), s)
                     ELSE [@ EXCEPT !.pc = "checked"]]
    /\ UNCHANGED <<users, teams, subsystems, records, comments, nextId, last>>

\* views.py:47-49, serializer.create(clean_data) and the 201 response
RegCreate(p) ==
    /\ reg[p].pc = "checked"
    /\ IF InsertViolatesUnique(reg[p].clean, users)
       THEN /\ reg' = [reg EXCEPT ![p] = Done(@, 500, "IntegrityError")]
            /\ UNCHANGED <<users, nextId>>
       ELSE /\ nextId.user <= MaxUsers
            /\ users' = Insert(users, nextId.user, UserRow(reg[p].clean))
            /\ nextId' = [nextId EXCEPT !.user = @ + 1]
            /\ reg' = [reg EXCEPT ![p] = Done(@, 201, "")]
    /\ UNCHANGED <<teams, subsystems, records, comments, last>>

\* views.py:43-50, UserRegister.post handled as one request, no other
\* request in between: validate, is_valid, create
RegisterPost(p) ==
    /\ reg[p].pc = "received"
    /\ LET v == RegisterValidation(reg[p].data, users, teams)
           s == SerializerError(v.clean, users, teams)
           Answer(e) ==
               /\ reg' = [reg EXCEPT ![p] = Done(@, StatusOf(e), e)]
               /\ UNCHANGED <<users, nextId>>
       IN  IF v.err # "" THEN Answer(v.err)
           ELSE IF s # "" THEN Answer(s)
           ELSE IF InsertViolatesUnique(v.clean, users)
               THEN Answer("IntegrityError")
           ELSE /\ nextId.user <= MaxUsers
                /\ users' = Insert(users, nextId.user, UserRow(v.clean))
                /\ nextId' = [nextId EXCEPT !.user = @ + 1]
                /\ reg' = [reg EXCEPT ![p] =
                             Done([@ EXCEPT !.clean = v.clean], 201, "")]
    /\ UNCHANGED <<teams, subsystems, records, comments, last>>

\* the response is sent; the slot takes the next request
RegReturn(p) ==
    /\ reg[p].pc = "done"
    /\ reg' = [reg EXCEPT ![p] = IdleSlot]
    /\ UNCHANGED <<users, teams, subsystems, records, comments, nextId, last>>

\* ------------------------------------------------- the store's deletes

\* a delete that leaves the referring rows as they are
KeepReferences(table, field, pks) == table

\* on_delete=models.SET_NULL: the rows that referred to a deleted row keep
\* everything but the reference
SetNull(table, field, pks) ==
    [k \in DOMAIN table |->
        IF table[k][field] \in pks THEN [table[k] EXCEPT ![field] = NULL]
        ELSE table[k]]

\* on_delete=models.CASCADE: the rows that referred to a deleted row
Referring(table, field, pks) == {k \in DOMAIN table : table[k][field] \in pks}

\* models.py:19-25, User.team is SET_NULL
UsersAfterTeamDeleteCascading(U, ts) == Remove(U, Referring(U, "team", ts))

UsersAfterTeamDelete(U, ts) == SetNull(U, "team", ts)

\* models.py:82-89, Record.subsystem is SET_NULL
RecordsAfterSubsystemDeleteCascading(R, ss) ==
    Remove(R, Referring(R, "subsystem", ss))

RecordsAfterSubsystemDelete(R, ss) == SetNull(R, "subsystem", ss)

\* models.py:61-63, Subsystem.parent_team is CASCADE
SubsystemsOfTeams(S, ts) == Referring(S, "parent_team", ts)

\* models.py:122, Comment.record_id is CASCADE: the comments of deleted
\* records, replies and top-level comments alike
CommentsOfRecordsTopLevel(C, rs) ==
    {k \in Referring(C, "record_id", rs) : C[k].parent_comment_id = NULL}

CommentsOfRecords(C, rs) == Referring(C, "record_id", rs)

\* models.py:122-125, Comment.record_id and Comment.parent_comment_id are
\* CASCADE: the comments a delete takes with it are those referring to a
\* deleted row, and those referring to these, until no more are found
CommentsDeletedOneLevel(C, seed) ==
    seed \cup Referring(C, "parent_comment_id", seed)

RECURSIVE CommentsDeleted(_, _)
CommentsDeleted(C, seed) ==
    LET more == seed \cup Referring(C, "parent_comment_id", seed)
    IN  IF more = seed THEN seed ELSE CommentsDeleted(C, more)

\* --------------------------------------------------------------- teams

TeamByName(T, name) == {k \in DOMAIN T : T[k].team_name = name}

SubsystemByName(S, name) == {k \in DOMAIN S : S[k].subsystem_name = name}

Anonymous == NULL

\* views.py:74-281, the permission a viewset's create, update and delete
\* check: the five viewsets declare no permission_classes (only the read
\* accessors, logout and registration name one), and the repository's tests
\* create subsystems, records and comments without credentials and expect 201
\* (test_view.py:180-187, 221-235)
HasPermission(requester) == TRUE

\* views.py:101-117, TeamViewSet (CreateModelMixin) with TeamSerializer:
\* team_name is unique (models.py:43), team_lead is an existing user or null
\* and leads at most one team (OneToOneField)
TeamCreate(name, lead) ==
    /\ lead = NULL \/ lead \in DOMAIN users
    /\ IF TeamByName(teams, name) # {}
          \/ (lead # NULL /\ \E k \in DOMAIN teams : teams[k].team_lead = lead)
       THEN /\ last' = Response("team_create", Anonymous, NULL, 400, "NotUnique")
            /\ UNCHANGED <<teams, nextId>>
       ELSE /\ nextId.team <= MaxTeams
            /\ teams' = Insert(teams, nextId.team,
                               [team_name |-> name, team_lead |-> lead])
            /\ nextId' = [nextId EXCEPT !.team = @ + 1]
            /\ last' = Response("team_create", Anonymous, nextId.team, 201, "")
    /\ UNCHANGED <<users, subsystems, records, comments, reg>>

\* views.py:101-117, TeamViewSet (DestroyModelMixin), lookup by team_name:
\* the store deletes the team's subsystems with it and nulls the references
\* of users to the team and of records to the deleted subsystems
TeamDestroy(name) ==
    LET found == TeamByName(teams, name)
        subs == SubsystemsOfTeams(subsystems, found)
    IN  /\ IF found = {}
           THEN /\ last' = Response("team_delete", Anonymous, NULL, 404, "NotFound")
                /\ UNCHANGED <<teams, subsystems, users, records>>
           ELSE /\ teams' = Remove(teams, found)
                /\ subsystems' = Remove(subsystems, subs)
                /\ users' = UsersAfterTeamDelete(users, found)
                /\ records' = RecordsAfterSubsystemDelete(records, subs)
                /\ last' = Response("team_delete", Anonymous,
                                    CHOOSE k \in found : TRUE, 204, "")
        /\ UNCHANGED <<comments, nextId, reg>>

\* views.py:101-117, TeamViewSet (UpdateModelMixin) with TeamSerializer,
\* lookup by team_name: the fields of the payload are validated (team_name
\* unique among the other teams, team_lead a stored user or null who leads no
\* other team) and saved
TeamUpdate(name, payload) ==
    LET found == TeamByName(teams, name)
        pk == CHOOSE k \in found : TRUE
        Has(f) == f \in DOMAIN payload
        Answer(status, detail) ==
            /\ last' = Response("team_update", Anonymous,
                                IF found = {} THEN NULL ELSE pk, status, detail)
            /\ UNCHANGED teams
    IN  /\ IF found = {} THEN Answer(404, "NotFound")
           ELSE IF Has("team_name")
                   /\ TeamByName(teams, payload.team_name) \ {pk} # {}
               THEN Answer(400, "NotUnique")
           ELSE IF Has("team_lead") /\ payload.team_lead # NULL
                   /\ payload.team_lead \notin DOMAIN users
               THEN Answer(400, "DoesNotExist")
           ELSE IF Has("team_lead") /\ payload.team_lead # NULL
                   /\ \E k \in DOMAIN teams \ {pk} :
                          teams[k].team_lead = payload.team_lead
               THEN Answer(400, "NotUnique")
           ELSE /\ teams' = [teams EXCEPT ![pk] = ApplyPayload(@, payload)]
                /\ last' = Response("team_update", Anonymous, pk, 200, "")
        /\ UNCHANGED <<users, subsystems, records, comments, nextId, reg>>

\* the rows ks of S in the order of their primary keys
RECURSIVE SubsystemsOrderedByPk(_, _)
SubsystemsOrderedByPk(S, ks) ==
    IF ks = {} THEN <<>>
    ELSE LET m == CHOOSE k \in ks : \A j \in ks : k <= j
         IN  <<m>> \o SubsystemsOrderedByPk(S, ks \ {m})

\* views.py:140-142, order_by("subsystem_name"): the rows ks of S, the
\* smallest name first
RECURSIVE SubsystemsOrdered(_, _)
SubsystemsOrdered(S, ks) ==
    IF ks = {} THEN <<>>
    ELSE LET m == CHOOSE k \in ks :
                    \A j \in ks \ {k} :
                        TextLess(S[k].subsystem_name, S[j].subsystem_name)
         IN  <<m>> \o SubsystemsOrdered(S, ks \ {m})

\* views.py:136-146, TeamViewSet.subsystems, lookup by team_name: the
\* subsystems whose parent_team is the team, ordered by subsystem_name; the
\* response carries them in that order
TeamSubsystems(name) ==
    LET found == TeamByName(teams, name)
        pk == CHOOSE k \in found : TRUE
    IN  /\ IF found = {}
           THEN last' = Response("team_subsystems", Anonymous, NULL, 404,
                                 "NotFound")
           ELSE last' = Response("team_subsystems", Anonymous, pk, 200,
                                 SubsystemsOrdered(
                                     subsystems,
                                     Referring(subsystems, "parent_team", {pk})))
        /\ UNCHANGED <<users, teams, subsystems, records, comments, nextId,
                       reg>>

\* ---------------------------------------------------------- subsystems

\* views.py:151-167, SubsystemViewSet (CreateModelMixin) with
\* SubsystemSerializer: subsystem_name is unique (models.py:60), parent_team
\* is the name of a stored team or null
SubsystemCreate(name, parent) ==
    LET found == TeamByName(teams, parent)
    IN  /\ IF ~HasPermission(Anonymous)
           THEN /\ last' = Response("subsystem_create", Anonymous, NULL, 401,
                                    "NotAuthenticated")
                /\ UNCHANGED <<subsystems, nextId>>
           ELSE IF SubsystemByName(subsystems, name) # {}
           THEN /\ last' = Response("subsystem_create", Anonymous, NULL, 400,
                                    "NotUnique")
                /\ UNCHANGED <<subsystems, nextId>>
           ELSE IF parent # <<>> /\ found = {}
           THEN /\ last' = Response("subsystem_create", Anonymous, NULL, 400,
                                    "DoesNotExist")
                /\ UNCHANGED <<subsystems, nextId>>
           ELSE /\ nextId.subsystem <= MaxSubsystems
                /\ subsystems' =
                     Insert(subsystems, nextId.subsystem,
                            [subsystem_name |-> name,
                             parent_team |-> IF parent = <<>> THEN NULL
                                             ELSE CHOOSE k \in found : TRUE])
                /\ nextId' = [nextId EXCEPT !.subsystem = @ + 1]
                /\ last' = Response("subsystem_create", Anonymous,
                                    nextId.subsystem, 201, "")
        /\ UNCHANGED <<users, teams, records, comments, reg>>

\* views.py:151-167, SubsystemViewSet (DestroyModelMixin), lookup by
\* subsystem_name: the store nulls the references of records to it
SubsystemDestroy(name) ==
    LET found == SubsystemByName(subsystems, name)
    IN  /\ IF found = {}
           THEN /\ last' = Response("subsystem_delete", Anonymous, NULL, 404,
                                    "NotFound")
                /\ UNCHANGED <<subsystems, records>>
           ELSE /\ subsystems' = Remove(subsystems, found)
                /\ records' = RecordsAfterSubsystemDelete(records, found)
                /\ last' = Response("subsystem_delete", Anonymous,
                                    CHOOSE k \in found : TRUE, 204, "")
        /\ UNCHANGED <<users, teams, comments, nextId, reg>>

\* views.py:151-167, SubsystemViewSet (UpdateModelMixin) with
\* SubsystemSerializer, lookup by subsystem_name: subsystem_name is unique
\* among the other subsystems, parent_team is the name of a stored team or
\* null (the empty text here)
SubsystemUpdate(name, payload) ==
    LET found == SubsystemByName(subsystems, name)
        pk == CHOOSE k \in found : TRUE
        Has(f) == f \in DOMAIN payload
        parent == IF Has("parent_team") THEN TeamByName(teams, payload.parent_team)
                  ELSE {}
        resolved ==
            [f \in DOMAIN payload |->
                IF f = "parent_team"
                THEN IF payload.parent_team = <<>> THEN NULL
                     ELSE CHOOSE k \in parent : TRUE
                ELSE payload[f]]
        Answer(status, detail) ==
            /\ last' = Response("subsystem_update", Anonymous,
                                IF found = {} THEN NULL ELSE pk, status, detail)
            /\ UNCHANGED subsystems
    IN  /\ IF found = {} THEN Answer(404, "NotFound")
           ELSE IF Has("subsystem_name")
                   /\ SubsystemByName(subsystems, payload.subsystem_name) \ {pk}
                        # {}
               THEN Answer(400, "NotUnique")
           ELSE IF Has("parent_team") /\ payload.parent_team # <<>>
                   /\ parent = {}
               THEN Answer(400, "DoesNotExist")
           ELSE /\ subsystems' =
                     [subsystems EXCEPT ![pk] = ApplyPayload(@, resolved)]
                /\ last' = Response("subsystem_update", Anonymous, pk, 200, "")
        /\ UNCHANGED <<users, teams, records, comments, nextId, reg>>

\* --------------------------------------------------------------- users

\* models.py:13, the value the store fills in for a username that the
\* request does not set: the empty text, a CharField's default
DefaultUsername == <<>>

\* views.py:74-90, UserViewSet (CreateModelMixin) with UserSerializer: the
\* email is unique (models.py:16), team is the name of a stored team or null.
\* UserSerializer has no username field (serializers.py:24), so the row is
\* inserted with the column's default, which the unique constraint of
\* models.py:13 admits once.
UserCreate(email, team) ==
    LET found == TeamByName(teams, team)
    IN  /\ IF EmailExists(users, email)
           THEN /\ last' = Response("user_create", Anonymous, NULL, 400,
                                    "NotUnique")
                /\ UNCHANGED <<users, nextId>>
           ELSE IF team # <<>> /\ found = {}
           THEN /\ last' = Response("user_create", Anonymous, NULL, 400,
                                    "DoesNotExist")
                /\ UNCHANGED <<users, nextId>>
           ELSE IF UsernameExists(users, DefaultUsername)
           THEN /\ last' = Response("user_create", Anonymous, NULL, 500,
                                    "IntegrityError")
                /\ UNCHANGED <<users, nextId>>
           ELSE /\ nextId.user <= MaxUsers
                /\ users' =
                     Insert(users, nextId.user,
                            [email |-> email, username |-> DefaultUsername,
                             first_name |-> <<"J">>,
                             last_name |-> <<"D">>, password |-> <<>>,
                             team |-> IF team = <<>> THEN NULL
                                      ELSE CHOOSE k \in found : TRUE,
                             is_staff |-> FALSE, is_admin |-> FALSE])
                /\ nextId' = [nextId EXCEPT !.user = @ + 1]
                /\ last' = Response("user_create", Anonymous, nextId.user,
                                    201, "")
        /\ UNCHANGED <<teams, subsystems, records, comments, reg>>

\* views.py:74-90, UserViewSet (DestroyModelMixin): the store nulls the
\* references of teams (team_lead) and comments (commenter) to the user
UserDestroy(pk) ==
    /\ IF pk \notin DOMAIN users
       THEN /\ last' = Response("user_delete", Anonymous, NULL, 404, "NotFound")
            /\ UNCHANGED <<users, teams, comments>>
       ELSE /\ users' = Remove(users, {pk})
            /\ teams' = SetNull(teams, "team_lead", {pk})
            /\ comments' = SetNull(comments, "commenter", {pk})
            /\ last' = Response("user_delete", Anonymous, pk, 204, "")
    /\ UNCHANGED <<subsystems, records, nextId, reg>>

\* views.py:74-90, UserViewSet (UpdateModelMixin) with UserSerializer,
\* lookup by the user's primary key: the email is unique among the other
\* users, team is the name of a stored team or null (the empty text here)
UserUpdate(pk, payload) ==
    LET Has(f) == f \in DOMAIN payload
        team == IF Has("team") THEN TeamByName(teams, payload.team) ELSE {}
        resolved ==
            [f \in DOMAIN payload |->
                IF f = "team"
                THEN IF payload.team = <<>> THEN NULL
                     ELSE CHOOSE k \in team : TRUE
                ELSE payload[f]]
        Answer(status, detail) ==
            /\ last' = Response("user_update", Anonymous,
                                IF pk \in DOMAIN users THEN pk ELSE NULL,
                                status, detail)
            /\ UNCHANGED users
    IN  /\ IF pk \notin DOMAIN users THEN Answer(404, "NotFound")
           ELSE IF Has("email")
                   /\ \E k \in DOMAIN users \ {pk} :
                          users[k].email = payload.email
               THEN Answer(400, "NotUnique")
           ELSE IF Has("team") /\ payload.team # <<>> /\ team = {}
               THEN Answer(400, "DoesNotExist")
           ELSE /\ users' = [users EXCEPT ![pk] = ApplyPayload(@, resolved)]
                /\ last' = Response("user_update", Anonymous, pk, 200, "")
        /\ UNCHANGED <<teams, subsystems, records, comments, nextId, reg>>

\* views.py:43-50, UserRegister.post handled as one request with its
\* response: the registration of the data d, for the runs in which
\* registrations are not interleaved with one another
UserRegisterPost(d) ==
    /\ LET v == RegisterValidation(d, users, teams)
           s == SerializerError(v.clean, users, teams)
           Answer(e) ==
               /\ last' = Response("register", Anonymous, NULL, StatusOf(e), e)
               /\ UNCHANGED <<users, nextId>>
       IN  IF v.err # "" THEN Answer(v.err)
           ELSE IF s # "" THEN Answer(s)
           ELSE IF InsertViolatesUnique(v.clean, users)
               THEN Answer("IntegrityError")
           ELSE /\ nextId.user <= MaxUsers
                /\ users' = Insert(users, nextId.user, UserRow(v.clean))
                /\ nextId' = [nextId EXCEPT !.user = @ + 1]
                /\ last' = Response("register", Anonymous, nextId.user, 201, "")
    /\ UNCHANGED <<teams, subsystems, records, comments, reg>>

\* -------------------------------------------------------------- records

\* Python values that views.py compares: request.user is a User (or the
\* AnonymousUser), Record.record_creator is a TextField (models.py:79), a
\* str or None
UserObject(pk) ==
    IF pk = Anonymous THEN [type |-> "AnonymousUser", val |-> 0]
    ELSE [type |-> "User", val |-> pk]

\* the text a record stores for the creator with primary key pk
CreatorText(pk) ==
    IF pk = NULL THEN [type |-> "NoneType", val |-> 0]
    ELSE [type |-> "str", val |-> pk]

\* ==: values of different types are never equal
PyEq(a, b) == a.type = b.type /\ a.val = b.val

Statuses == {"open", "closed"}

\* the payloads of an update: the fields a request sets
RecordPayloads ==
    {[status |-> st] : st \in Statuses}
    \cup {[record_creator |-> CreatorText(u)] : u \in 1..MaxUsers}

\* the payloads that set one flag of a record
FlagPayloads == {f :> v : f \in RecordFlags, v \in BOOLEAN}

\* views.py:179-192, RecordViewSet (CreateModelMixin) with RecordSerializer:
\* record_creator names a stored user or is null, subsystem is the name of a
\* stored subsystem or null
RecordCreate(requester, creator, subsystem, status) ==
    LET found == SubsystemByName(subsystems, subsystem)
    IN  /\ requester = Anonymous \/ requester \in DOMAIN users
        /\ IF ~HasPermission(requester)
           THEN /\ last' = Response("record_create", requester, NULL, 401,
                                    "NotAuthenticated")
                /\ UNCHANGED <<records, nextId>>
           ELSE IF (creator # NULL /\ creator \notin DOMAIN users)
              \/ (subsystem # <<>> /\ found = {})
           THEN /\ last' = Response("record_create", requester, NULL, 400,
                                    "DoesNotExist")
                /\ UNCHANGED <<records, nextId>>
           ELSE /\ nextId.record <= MaxRecords
                /\ records' =
                     Insert(records, nextId.record,
                            [record_creator |-> CreatorText(creator),
                             subsystem |-> IF subsystem = <<>> THEN NULL
                                           ELSE CHOOSE k \in found : TRUE,
                             status |-> status,
                             is_resolved |-> FALSE,
                             is_record_validated |-> FALSE,
                             is_analysis_validated |-> FALSE,
                             is_correction_validated |-> FALSE,
                             is_reviewed |-> FALSE])
                /\ nextId' = [nextId EXCEPT !.record = @ + 1]
                /\ last' = Response("record_create", requester, nextId.record,
                                    201, "")
        /\ UNCHANGED <<users, teams, subsystems, comments, reg>>

\* views.py:244-260, RecordViewSet.put: the record named by the query
\* parameter, the creator check, then the update
RecordPut(requester, pk, payload) ==
    /\ requester = Anonymous \/ requester \in DOMAIN users
    /\ IF pk \notin DOMAIN records
       THEN /\ last' = Response("record_put", requester, NULL, 400,
                                "Record does not exist.")
            /\ UNCHANGED records
       ELSE IF PyEq(UserObject(requester), records[pk].record_creator)
       THEN /\ records' = [records EXCEPT ![pk] = ApplyPayload(@, payload)]
            /\ last' = Response("record_put", requester, pk, 200, "")
       ELSE /\ last' = Response("record_put", requester, pk, 403,
                                "PermissionDenied")
            /\ UNCHANGED records
    /\ UNCHANGED <<users, teams, subsystems, comments, nextId, reg>>

\* views.py:179-192, RecordViewSet (UpdateModelMixin), update: the detail
\* route's full update, lookup by record_id
RecordUpdate(requester, pk, payload) ==
    /\ requester = Anonymous \/ requester \in DOMAIN users
    /\ IF pk \notin DOMAIN records
       THEN /\ last' = Response("record_update", requester, NULL, 404,
                                "NotFound")
            /\ UNCHANGED records
       ELSE /\ records' = [records EXCEPT ![pk] = ApplyPayload(@, payload)]
            /\ last' = Response("record_update", requester, pk, 200, "")
    /\ UNCHANGED <<users, teams, subsystems, comments, nextId, reg>>

\* views.py:179-192, RecordViewSet (UpdateModelMixin), partial_update: the
\* detail route's partial update, lookup by record_id
RecordPartialUpdate(requester, pk, payload) ==
    /\ requester = Anonymous \/ requester \in DOMAIN users
    /\ IF pk \notin DOMAIN records
       THEN /\ last' = Response("record_partial_update", requester, NULL, 404,
                                "NotFound")
            /\ UNCHANGED records
       ELSE /\ records' = [records EXCEPT ![pk] = ApplyPayload(@, payload)]
            /\ last' = Response("record_partial_update", requester, pk, 200,
                                "")
    /\ UNCHANGED <<users, teams, subsystems, comments, nextId, reg>>

\* views.py:179-192, RecordViewSet (UpdateModelMixin), partial_update of the
\* subsystem with RecordSerializer (serializers.py:154-159): the name of a
\* stored subsystem or null (the empty text here)
RecordSetSubsystem(pk, name) ==
    LET found == SubsystemByName(subsystems, name)
    IN  /\ IF pk \notin DOMAIN records
           THEN /\ last' = Response("record_partial_update", Anonymous, NULL,
                                    404, "NotFound")
                /\ UNCHANGED records
           ELSE IF name # <<>> /\ found = {}
           THEN /\ last' = Response("record_partial_update", Anonymous, pk,
                                    400, "DoesNotExist")
                /\ UNCHANGED records
           ELSE /\ records' =
                     [records EXCEPT ![pk].subsystem =
                         IF name = <<>> THEN NULL ELSE CHOOSE k \in found : TRUE]
                /\ last' = Response("record_partial_update", Anonymous, pk,
                                    200, "")
        /\ UNCHANGED <<users, teams, subsystems, comments, nextId, reg>>

\* views.py:179-192, RecordViewSet (DestroyModelMixin): the store deletes the
\* record's comments and their replies with it
RecordDestroy(pk) ==
    /\ IF pk \notin DOMAIN records
       THEN /\ last' = Response("record_delete", Anonymous, NULL, 404,
                                "NotFound")
            /\ UNCHANGED <<records, comments>>
       ELSE /\ records' = Remove(records, {pk})
            /\ comments' =
                 Remove(comments,
                        CommentsDeleted(comments,
                                        CommentsOfRecords(comments, {pk})))
            /\ last' = Response("record_delete", Anonymous, pk, 204, "")
    /\ UNCHANGED <<users, teams, subsystems, nextId, reg>>

\* ------------------------------------------------------------- comments

\* the instants a comment can carry
MaxTime == 2

CreationTimes == 1..MaxTime

\* views.py:265-281, CommentViewSet (CreateModelMixin) with
\* CommentSerializer: record_id is a stored record, parent_comment_id a
\* stored comment or null, commenter a stored user or null; creation_time is
\* a field of the payload (serializers.py, fields = "__all__") and defaults
\* to the clock's reading (models.py:127)
CommentCreateAt(record, parent, commenter, time) ==
    /\ IF \/ record \notin DOMAIN records
          \/ (parent # NULL /\ parent \notin DOMAIN comments)
          \/ (commenter # NULL /\ commenter \notin DOMAIN users)
       THEN /\ last' = Response("comment_create", Anonymous, NULL, 400,
                                "DoesNotExist")
            /\ UNCHANGED <<comments, nextId>>
       ELSE /\ nextId.comment <= MaxComments
            /\ comments' =
                 Insert(comments, nextId.comment,
                        [record_id |-> record, parent_comment_id |-> parent,
                         commenter |-> commenter,
                         creation_time |-> time])
            /\ nextId' = [nextId EXCEPT !.comment = @ + 1]
            /\ last' = Response("comment_create", Anonymous, nextId.comment,
                                201, "")
    /\ UNCHANGED <<users, teams, subsystems, records, reg>>

\* a comment created at the first instant
CommentCreate(record, parent, commenter) ==
    CommentCreateAt(record, parent, commenter, 1)

\* the orders in which the rows ks can be listed
RECURSIVE Orderings(_)
Orderings(ks) ==
    IF ks = {} THEN {<<>>}
    ELSE UNION {{<<k>> \o rest : rest \in Orderings(ks \ {k})} : k \in ks}

\* a listing in the order of the primary keys
ByCommentId(C, seq) ==
    \A i, j \in 1..Len(seq) : i < j => seq[i] < seq[j]

\* views.py:236, order_by("creation_time"): a listing in which no comment
\* comes before an earlier one; the store decides between comments of the
\* same instant
ByCreationTime(C, seq) ==
    \A i, j \in 1..Len(seq) :
        i < j => C[seq[i]].creation_time <= C[seq[j]].creation_time

\* views.py:232-240, RecordViewSet.comments, lookup by record_id: the
\* comments whose record_id is the record, ordered by creation_time
RecordComments(pk) ==
    /\ IF pk \notin DOMAIN records
       THEN last' = Response("record_comments", Anonymous, NULL, 404,
                             "NotFound")
       ELSE \E listing \in Orderings(CommentsOfRecords(comments, {pk})) :
                /\ ByCreationTime(comments, listing)
                /\ last' = Response("record_comments", Anonymous, pk, 200,
                                    listing)
    /\ UNCHANGED <<users, teams, subsystems, records, comments, nextId, reg>>

\* views.py:265-281, CommentViewSet (UpdateModelMixin), partial_update of
\* the parent: any stored comment or null
CommentSetParent(pk, parent) ==
    /\ IF pk \notin DOMAIN comments
       THEN /\ last' = Response("comment_update", Anonymous, NULL, 404,
                                "NotFound")
            /\ UNCHANGED comments
       ELSE IF parent # NULL /\ parent \notin DOMAIN comments
       THEN /\ last' = Response("comment_update", Anonymous, pk, 400,
                                "DoesNotExist")
            /\ UNCHANGED comments
       ELSE /\ comments' = [comments EXCEPT ![pk].parent_comment_id = parent]
            /\ last' = Response("comment_update", Anonymous, pk, 200, "")
    /\ UNCHANGED <<users, teams, subsystems, records, nextId, reg>>

\* views.py:265-281, CommentViewSet (DestroyModelMixin): the store deletes
\* the comment's replies with it
CommentDestroy(pk) ==
    /\ IF pk \notin DOMAIN comments
       THEN /\ last' = Response("comment_delete", Anonymous, NULL, 404,
                                "NotFound")
            /\ UNCHANGED comments
       ELSE /\ comments' = Remove(comments, CommentsDeleted(comments, {pk}))
            /\ last' = Response("comment_delete", Anonymous, pk, 204, "")
    /\ UNCHANGED <<users, teams, subsystems, records, nextId, reg>>

\* ------------------------------------------------------------ behaviour

Procs == 1..MaxRequests

Init ==
    /\ users = <<>>
    /\ teams = <<>>
    /\ subsystems = <<>>
    /\ records = <<>>
    /\ comments = <<>>
    /\ nextId = [e \in Entities |-> 1]
    /\ reg = [p \in Procs |-> IdleSlot]
    /\ last = NoRequest

\* registrations handled one after the other, against a changing set of teams
NextRegister ==
    \/ \E d \in RegisterData : RegSubmit(1, d)
    \/ RegisterPost(1)
    \/ RegReturn(1)
    \/ \E n \in TeamNames : TeamCreate(n, NULL)

SpecRegister == Init /\ [][NextRegister]_vars

\* registrations handled concurrently: the steps of UserRegister.post of
\* different requests interleave
NextRace ==
    \/ \E p \in Procs, d \in RaceData : RegSubmit(p, d)
    \/ \E p \in Procs : RegValidate(p)
    \/ \E p \in Procs : RegIsValid(p)
    \/ \E p \in Procs : RegCreate(p)
    \/ \E p \in Procs : RegReturn(p)

SpecRace == Init /\ [][NextRace]_vars

\* teams with their subsystems and their members
NextTeams ==
    \/ \E n \in TeamNames : TeamCreate(n, NULL)
    \/ \E n \in TeamNames : TeamDestroy(n)
    \/ \E n \in SubsystemNames, t \in TeamNames \cup {<<>>} :
           SubsystemCreate(n, t)
    \/ \E n \in SubsystemNames : SubsystemDestroy(n)
    \/ \E e \in UserEmails, t \in TeamNames \cup {<<>>} :
           UserRegisterPost(Member(e, t))
    \/ \E n \in TeamNames : TeamSubsystems(n)

SpecTeams == Init /\ [][NextTeams]_vars

\* teams with their subsystems, and the records of subsystems
NextSubsystems ==
    \/ \E n \in SubsystemNames, t \in TeamNames \cup {<<>>} :
           SubsystemCreate(n, t)
    \/ \E n \in TeamNames : TeamCreate(n, NULL)
    \/ \E n \in TeamNames : TeamDestroy(n)
    \/ \E n \in SubsystemNames : SubsystemDestroy(n)
    \/ \E n \in SubsystemNames \cup {<<>>} :
           RecordCreate(Anonymous, NULL, n, "open")

SpecSubsystems == Init /\ [][NextSubsystems]_vars

\* records with their threads of comments
NextComments ==
    \/ \E st \in Statuses : RecordCreate(Anonymous, NULL, <<>>, st)
    \/ \E r \in 1..MaxRecords : RecordDestroy(r)
    \/ \E r \in 1..MaxRecords, c \in 0..MaxComments :
           CommentCreate(r, c, NULL)
    \/ \E c \in 1..MaxComments : CommentDestroy(c)

SpecComments == Init /\ [][NextComments]_vars

\* comment threads whose replies are moved under other comments
NextThreads ==
    \/ RecordCreate(Anonymous, NULL, <<>>, "open")
    \/ \E r \in DOMAIN records, c \in {NULL} \cup DOMAIN comments :
           CommentCreate(r, c, NULL)
    \/ \E c \in DOMAIN comments, q \in {NULL} \cup DOMAIN comments :
           CommentSetParent(c, q)
    \/ \E c \in DOMAIN comments : CommentDestroy(c)

SpecThreads == Init /\ [][NextThreads]_vars

\* records whose comments are written at different instants, and read
NextTimeline ==
    \/ RecordCreate(Anonymous, NULL, <<>>, "open")
    \/ \E r \in 1..MaxRecords, t \in CreationTimes :
           CommentCreateAt(r, NULL, NULL, t)
    \/ \E c \in 1..MaxComments : CommentDestroy(c)
    \/ \E r \in 1..MaxRecords : RecordComments(r)

SpecTimeline == Init /\ [][NextTimeline]_vars

\* the workflow of the first record: its flags are set one at a time, in any
\* order, while other records are created
NextWorkflow ==
    \/ \E st \in Statuses : RecordCreate(Anonymous, NULL, <<>>, st)
    \/ \E pl \in FlagPayloads : RecordPartialUpdate(Anonymous, 1, pl)

SpecWorkflow == Init /\ [][NextWorkflow]_vars

\* valid registrations that submit privilege keys, with and without a team
PrivilegeData ==
    {[Member(e, t) EXCEPT !.is_staff = s, !.is_admin = a] :
        e \in UserEmails, t \in TeamNames \cup {<<>>},
        s \in SubmittedPrivileges, a \in SubmittedPrivileges}

\* registrations that submit privilege keys, against a changing set of teams
NextPrivilege ==
    \/ \E d \in PrivilegeData : UserRegisterPost(d)
    \/ \E n \in TeamNames : TeamCreate(n, NULL)
    \/ \E n \in TeamNames : TeamDestroy(n)

SpecPrivilege == Init /\ [][NextPrivilege]_vars

\* the rows of each entity that the runs over the whole store create
MaxRows == 1

StoreEmails == {<<"a">>}

StoreTeamNames == {<<"A">>}

StoreSubsystemNames == {<<"e">>}

\* the five entities together: creates, deletes and the updates that set a
\* reference, each row referring to any stored row or to none
NextStore ==
    \/ \E e \in StoreEmails \ {users[u].email : u \in DOMAIN users},
          t \in StoreTeamNames \cup {<<>>} :
           nextId.user <= MaxRows /\ UserRegisterPost(Member(e, t))
    \/ \E u \in DOMAIN users, t \in StoreTeamNames \cup {<<>>} :
           UserUpdate(u, [team |-> t])
    \/ \E u \in DOMAIN users : UserDestroy(u)
    \/ \E n \in StoreTeamNames \ {teams[t].team_name : t \in DOMAIN teams},
          u \in {NULL} \cup DOMAIN users :
           nextId.team <= MaxRows /\ TeamCreate(n, u)
    \/ \E t \in DOMAIN teams, u \in {NULL} \cup DOMAIN users :
           TeamUpdate(teams[t].team_name, [team_lead |-> u])
    \/ \E t \in DOMAIN teams : TeamDestroy(teams[t].team_name)
    \/ \E n \in StoreSubsystemNames
                  \ {subsystems[x].subsystem_name : x \in DOMAIN subsystems},
          t \in StoreTeamNames \cup {<<>>} :
           nextId.subsystem <= MaxRows /\ SubsystemCreate(n, t)
    \/ \E x \in DOMAIN subsystems, t \in StoreTeamNames \cup {<<>>} :
           SubsystemUpdate(subsystems[x].subsystem_name, [parent_team |-> t])
    \/ \E x \in DOMAIN subsystems :
           SubsystemDestroy(subsystems[x].subsystem_name)
    \/ \E n \in StoreSubsystemNames \cup {<<>>} :
           nextId.record <= MaxRows /\ RecordCreate(Anonymous, NULL, n, "open")
    \/ \E r \in DOMAIN records, n \in StoreSubsystemNames \cup {<<>>} :
           RecordSetSubsystem(r, n)
    \/ \E r \in DOMAIN records : RecordDestroy(r)
    \/ \E r \in DOMAIN records, c \in {NULL} \cup DOMAIN comments,
          u \in {NULL} \cup DOMAIN users :
           nextId.comment <= MaxRows /\ CommentCreate(r, c, u)
    \/ \E c \in DOMAIN comments :
           \E q \in {NULL} \cup (DOMAIN comments \ {c}) : CommentSetParent(c, q)
    \/ \E c \in DOMAIN comments : CommentDestroy(c)

SpecStore == Init /\ [][NextStore]_vars

\* valid registrations that differ in their email and username
UniqueData ==
    {[Member(e, <<>>) EXCEPT !.username = u] :
        e \in UserEmails, u \in SubmittedUsernames}

\* the requests that write a unique field: email, username, team_name,
\* subsystem_name
NextUnique ==
    \/ \E n \in TeamNames : TeamCreate(n, NULL)
    \/ \E n, m \in TeamNames : TeamUpdate(n, [team_name |-> m])
    \/ \E n \in SubsystemNames : SubsystemCreate(n, <<>>)
    \/ \E n, m \in SubsystemNames : SubsystemUpdate(n, [subsystem_name |-> m])
    \/ \E e \in UserEmails : UserCreate(e, <<>>)
    \/ \E d \in UniqueData : UserRegisterPost(d)
    \/ \E u \in 1..MaxUsers, e \in UserEmails : UserUpdate(u, [email |-> e])
    \/ \E u \in 1..MaxUsers : UserDestroy(u)

SpecUnique == Init /\ [][NextUnique]_vars

\* records and the requests that update them
NextRecords ==
    \/ \E e \in UserEmails : UserRegisterPost(Member(e, <<>>))
    \/ \E u \in 0..MaxUsers, c \in 0..MaxUsers, st \in Statuses :
           RecordCreate(u, c, <<>>, st)
    \/ \E u \in 0..MaxUsers, r \in 1..MaxRecords, pl \in RecordPayloads :
           RecordPut(u, r, pl)
    \/ \E u \in 0..MaxUsers, r \in 1..MaxRecords, pl \in RecordPayloads :
           RecordPartialUpdate(u, r, pl)
    \/ \E u \in 0..MaxUsers, r \in 1..MaxRecords, pl \in RecordPayloads :
           RecordUpdate(u, r, pl)

SpecRecords == Init /\ [][NextRecords]_vars

\* ------------------------------------------------- registration: claims

\* the checks register_validation makes before the team lookup all pass
PassesChecks(d, U) ==
    /\ ~EmailTaken(d, U)
    /\ ~PasswordTooShort(d)
    /\ Strip(d.first_name) # <<>>
    /\ Strip(d.last_name) # <<>>
    /\ ~PasswordMismatch(d)

\* the request in slot p is answered in this step
Answered(p) == reg[p].pc = "received" /\ reg'[p].pc = "done"

\* C2: a registration whose trimmed email is the email of an existing account
\* is answered with the DuplicateEmail validation failure and leaves the
\* accounts as they were.
C2_DuplicateEmailRejected ==
    [][\A p \in Procs :
         (Answered(p) /\ EmailExists(users, Strip(reg[p].data.email)))
             => /\ reg'[p].detail = "DuplicateEmail"
                /\ reg'[p].status = 400
                /\ users' = users]_vars

C2_Witness ==
    \E p \in Procs :
        /\ reg[p].pc = "done"
        /\ reg[p].detail = "DuplicateEmail"
        /\ EmailExists(users, Strip(reg[p].data.email))
        /\ reg[p].data.email # Strip(reg[p].data.email)
        /\ ~PasswordTooShort(reg[p].data)

\* C3 as stated: a submitted password shorter than 8 is answered
\* PasswordTooShort whatever the other fields are.
C3_ShortPasswordAlways ==
    [][\A p \in Procs :
         (Answered(p) /\ Len(reg[p].data.password1) < MinPasswordLength)
             => /\ reg'[p].detail = "PasswordTooShort"
                /\ users' = users]_vars

\* C3 as amended: a password shorter than 8 after trimming is answered
\* PasswordTooShort, and no account is created, when the trimmed email is
\* non-empty and not registered yet, whatever the names, the second password
\* and the team are.
C3_ShortPasswordAfterEmail ==
    [][\A p \in Procs :
         (/\ Answered(p)
          /\ Len(Strip(reg[p].data.password1)) < MinPasswordLength
          /\ ~EmailTaken(reg[p].data, users))
             => /\ reg'[p].detail = "PasswordTooShort"
                /\ reg'[p].status = 400
                /\ users' = users]_vars

C3_Witness ==
    \E p \in Procs :
        /\ reg[p].pc = "done"
        /\ reg[p].detail = "PasswordTooShort"
        /\ Len(reg[p].data.password1) = MinPasswordLength - 1
        /\ Strip(reg[p].data.first_name) = <<>>
        /\ users # <<>>

\* C4 as stated: two differing password fields are answered PasswordMismatch
\* whatever the other fields are.
C4_MismatchAlways ==
    [][\A p \in Procs :
         (Answered(p) /\ reg[p].data.password1 # reg[p].data.password2)
             => /\ reg'[p].detail = "PasswordMismatch"
                /\ users' = users]_vars

\* C4 as amended: password fields that differ after trimming are answered
\* PasswordMismatch, and no account is created, when the email, password
\* length and name checks that run first all pass, whatever the team is.
C4_MismatchAfterEarlierChecks ==
    [][\A p \in Procs :
         (/\ Answered(p)
          /\ Strip(reg[p].data.password1) # Strip(reg[p].data.password2)
          /\ ~EmailTaken(reg[p].data, users)
          /\ ~PasswordTooShort(reg[p].data)
          /\ Strip(reg[p].data.first_name) # <<>>
          /\ Strip(reg[p].data.last_name) # <<>>)
             => /\ reg'[p].detail = "PasswordMismatch"
                /\ reg'[p].status = 400
                /\ users' = users]_vars

C4_Witness ==
    \E p \in Procs :
        /\ reg[p].pc = "done"
        /\ reg[p].detail = "PasswordMismatch"
        /\ Len(Strip(reg[p].data.password1)) = Len(Strip(reg[p].data.password2))
        /\ users # <<>>

\* C5: a registration that passes the email, name and password checks does
\* not fail because of its team field, and the team of the account it creates
\* is the stored team whose name equals the submitted one ignoring case when
\* there is one, and no team otherwise.
C5_TeamResolvesIgnoringCase ==
    [][\A p \in Procs :
         (Answered(p) /\ PassesChecks(reg[p].data, users))
             => /\ reg'[p].detail \notin {"MultipleObjectsReturned", "DoesNotExist"}
                /\ \A k \in DOMAIN users' \ DOMAIN users :
                     LET found == TeamsIExact(teams, Strip(reg[p].data.team))
                     IN  IF found = {} THEN users'[k].team = NULL
                         ELSE users'[k].team \in found]_vars

\* C6: of two registrations with the same email that have both been
\* answered, exactly one created the account and the other was answered with
\* a validation failure saying the email is taken (raised by
\* register_validation or by the serializer's unique validator); no two
\* accounts share the email.
C6_OneWinnerOtherDuplicateEmail ==
    /\ \A p, q \in Procs :
         (/\ p # q
          /\ reg[p].pc = "done" /\ reg[q].pc = "done"
          /\ reg[p].data.email = reg[q].data.email
          /\ reg[p].status = 201)
             => /\ reg[q].status = 400
                /\ reg[q].detail \in {"DuplicateEmail", "NotUnique"}
    /\ \A j, k \in DOMAIN users : users[j].email = users[k].email => j = k

\* ------------------------------------------------------ records: claims

RecordUpdateOps == {"record_put", "record_update", "record_partial_update"}

\* the requesting user is the one the record's stored creator names
IsCreator(requester, row) ==
    requester # Anonymous /\ row.record_creator = CreatorText(requester)

\* C1: an update of a record (put, full update or partial update) requested
\* by a user who is not the record's stored creator is answered 403 and
\* leaves every field of the record as it was. Stated for the plainest case:
\* the requester is a stored user and the creator names another stored user.
C1_NonCreatorUpdateDenied ==
    [][(/\ last'.op \in RecordUpdateOps
        /\ last'.key \in DOMAIN records
        /\ last'.user \in DOMAIN users
        /\ \E c \in DOMAIN users : IsCreator(c, records[last'.key])
        /\ ~IsCreator(last'.user, records[last'.key]))
            => /\ last'.status = 403
               /\ records' = records]_vars

\* ------------------------------------------------------ deletes: claims

Deleted(table) == DOMAIN table \ DOMAIN table'

Kept(table) == \A k \in DOMAIN table' : k \in DOMAIN table /\ table'[k] = table[k]

\* C7: deleting a team deletes exactly the subsystems whose parent it is and
\* no user; the users of the team stay with their team reference null, and
\* the other users, teams and subsystems are as they were.
C7_TeamDeleteCascadesToSubsystemsNotUsers ==
    [][(last'.op = "team_delete" /\ last'.status = 204)
            => LET t == last'.key
               IN  /\ Deleted(teams) = {t}
                   /\ Kept(teams)
                   /\ Deleted(subsystems) =
                        {k \in DOMAIN subsystems : subsystems[k].parent_team = t}
                   /\ Kept(subsystems)
                   /\ DOMAIN users' = DOMAIN users
                   /\ \A u \in DOMAIN users :
                        users'[u] = IF users[u].team = t
                                    THEN [users[u] EXCEPT !.team = NULL]
                                    ELSE users[u]]_vars

C7_Witness ==
    /\ last.op = "team_delete"
    /\ last.status = 204
    /\ Cardinality(DOMAIN teams) = 1
    /\ Cardinality(DOMAIN subsystems) = 1
    /\ nextId.subsystem = 3
    /\ \E u, v \in DOMAIN users :
         users[u].team = NULL /\ users[v].team \in DOMAIN teams

\* the comments from c up along the parent references, c included
RECURSIVE AncestorsOrSelf(_, _, _)
AncestorsOrSelf(C, c, n) ==
    IF n = 0 \/ c \notin DOMAIN C THEN {}
    ELSE {c} \cup AncestorsOrSelf(C, C[c].parent_comment_id, n - 1)

\* c is one of the comments in set, or a reply nested at any depth under one
Under(C, c, set) ==
    AncestorsOrSelf(C, c, Cardinality(DOMAIN C)) \cap set # {}

\* C8: deleting a record deletes every comment attached to it and every
\* reply nested at any depth under such a comment; afterwards no comment
\* refers to the deleted record.
C8_RecordDeleteCascadesToComments ==
    [][(last'.op = "record_delete" /\ last'.status = 204)
            => LET r == last'.key
                   attached ==
                       {c \in DOMAIN comments : comments[c].record_id = r}
               IN  /\ Deleted(records) = {r}
                   /\ \A c \in DOMAIN comments :
                        Under(comments, c, attached) => c \notin DOMAIN comments'
                   /\ \A c \in DOMAIN comments' : comments'[c].record_id # r]_vars

C8_Witness ==
    /\ last.op = "record_delete"
    /\ last.status = 204
    /\ nextId.comment = MaxComments + 1
    /\ comments = <<>>
    /\ records # <<>>

\* C9: deleting a comment deletes the comments nested at any depth under it
\* and nothing else: every other comment and every record is as it was.
C9_CommentDeleteCascadesToReplies ==
    [][(last'.op = "comment_delete" /\ last'.status = 204)
            => /\ Deleted(comments) =
                    {c \in DOMAIN comments : Under(comments, c, {last'.key})}
               /\ Kept(comments)
               /\ records' = records]_vars

C9_Witness ==
    /\ last.op = "comment_delete"
    /\ last.status = 204
    /\ nextId.comment = MaxComments + 1
    /\ Cardinality(DOMAIN comments) = 1
    /\ records # <<>>

\* C10: deleting a subsystem, directly or with its parent team, deletes no
\* record: the records that referred to it stay with their subsystem
\* reference null and their other fields as they were, and the other records
\* are unchanged.
C10_SubsystemDeleteKeepsRecords ==
    [][(last'.op \in {"subsystem_delete", "team_delete"} /\ last'.status = 204)
            => /\ last'.op = "subsystem_delete"
                    => Deleted(subsystems) = {last'.key}
               /\ last'.op = "team_delete"
                    => Deleted(subsystems) =
                         {k \in DOMAIN subsystems :
                             subsystems[k].parent_team = last'.key}
               /\ DOMAIN records' = DOMAIN records
               /\ \A r \in DOMAIN records :
                    records'[r] =
                        IF records[r].subsystem \in Deleted(subsystems)
                        THEN [records[r] EXCEPT !.subsystem = NULL]
                        ELSE records[r]]_vars

C10_Witness ==
    /\ last.op = "team_delete"
    /\ last.status = 204
    /\ subsystems # <<>>
    /\ nextId.subsystem = 3
    /\ \E r, q \in DOMAIN records :
         records[r].subsystem = NULL /\ records[q].subsystem \in DOMAIN subsystems

\* ------------------------------------------------------- access: claims

\* the operations that create, update or delete a row of the store
WriteOps ==
    {"user_create", "user_update", "user_delete",
     "team_create", "team_update", "team_delete",
     "subsystem_create", "subsystem_update", "subsystem_delete",
     "record_create", "record_put", "record_update", "record_partial_update",
     "record_delete",
     "comment_create", "comment_update", "comment_delete"}

\* C11: a create, update or delete of a user, team, subsystem, record or
\* comment that is requested without credentials is rejected (401 or 403)
\* and leaves the five tables as they were.
C11_WritesRequireAuthentication ==
    [][(last'.op \in WriteOps /\ last'.user = Anonymous)
            => /\ last'.status \in {401, 403}
               /\ UNCHANGED <<users, teams, subsystems, records, comments>>]_vars

\* --------------------------------------------------- uniqueness: claims

UniqueKeys ==
    /\ \A j, k \in DOMAIN users :
         j # k => /\ users[j].email # users[k].email
                  /\ users[j].username # users[k].username
    /\ \A j, k \in DOMAIN teams :
         j # k => teams[j].team_name # teams[k].team_name
    /\ \A j, k \in DOMAIN subsystems :
         j # k => subsystems[j].subsystem_name # subsystems[k].subsystem_name

\* the answer to a request that would have stored a duplicate: a validation
\* failure (400) or the store's integrity error, and no table changed
RejectedAsDuplicate ==
    /\ last'.status \in {400, 500}
    /\ last'.detail \in {"NotUnique", "DuplicateEmail", "IntegrityError"}
    /\ UNCHANGED <<users, teams, subsystems>>

Range(seq) == {seq[i] : i \in 1..Len(seq)}

\* C13: the answer of Team.subsystems(t) for a stored team t lists each
\* subsystem whose parent team is t once and no other subsystem, in
\* ascending order of subsystem name, and changes nothing.
C13_TeamSubsystemsExactAndOrdered ==
    [][(last'.op = "team_subsystems" /\ last'.status = 200)
            => LET t == last'.key
                   res == last'.detail
               IN  /\ t \in DOMAIN teams
                   /\ Range(res) =
                        {k \in DOMAIN subsystems : subsystems[k].parent_team = t}
                   /\ \A i, j \in 1..Len(res) :
                        i < j => TextLess(subsystems[res[i]].subsystem_name,
                                          subsystems[res[j]].subsystem_name)
                   /\ UNCHANGED <<users, teams, subsystems, records, comments>>]_vars

C13_Witness ==
    /\ last.op = "team_subsystems"
    /\ last.status = 200
    /\ Len(last.detail) = 2
    /\ last.detail[1] > last.detail[2]
    /\ Cardinality(DOMAIN teams) = 2

C15_CreatorUpdateApplied ==
    [][(/\ last'.op \in RecordUpdateOps
        /\ last'.key \in DOMAIN records
        /\ IsCreator(last'.user, records[last'.key]))
            => /\ last'.status = 200
               /\ \E pl \in RecordPayloads :
                    records' = [records EXCEPT
                                   ![last'.key] = ApplyPayload(@, pl)]]_vars

\* C16: whatever the flags, is_resolved and status of a stored record are, a
\* partial update can set each of is_record_validated,
\* is_analysis_validated, is_correction_validated and is_reviewed to TRUE and
\* to FALSE; it is answered 200 and changes one field of that record and
\* nothing else.
C16_FlagsSetIndependently ==
    /\ [](1 \in DOMAIN records
            => \A f \in WorkflowFlags, v \in BOOLEAN :
                   ENABLED (/\ RecordPartialUpdate(Anonymous, 1, f :> v)
                            /\ last'.status = 200
                            /\ records'[1][f] = v))
    /\ [][(last'.op = "record_partial_update" /\ 1 \in DOMAIN records)
            => /\ last'.status = 200
               /\ \E f \in RecordFlags, v \in BOOLEAN :
                    records' = [records EXCEPT ![1][f] = v]]_vars

C16_Witness ==
    /\ last.op = "record_partial_update"
    /\ last.status = 200
    /\ 1 \in DOMAIN records
    /\ records[1].is_reviewed
    /\ records[1].is_correction_validated
    /\ ~records[1].is_analysis_validated
    /\ ~records[1].is_record_validated
    /\ ~records[1].is_resolved
    /\ records[1].status = "open"
    /\ Cardinality(DOMAIN records) = MaxRecords

\* ------------------------------------------------- privileges: claims

\* C17: the account a registration creates has is_staff and is_admin false,
\* whatever the request submitted and whether or not its team matched.
C17_RegisteredAccountsNonPrivileged ==
    [][(last'.op = "register" /\ last'.status = 201)
            => /\ ~users'[last'.key].is_staff
               /\ ~users'[last'.key].is_admin]_vars

\* ----------------------------------------------- comment threads: claims

\* following the parent references from c reaches a top-level comment in at
\* most n steps
RECURSIVE ReachesTopLevel(_, _, _)
ReachesTopLevel(C, c, n) ==
    IF n = 0 \/ c \notin DOMAIN C THEN FALSE
    ELSE IF C[c].parent_comment_id = NULL THEN TRUE
    ELSE ReachesTopLevel(C, C[c].parent_comment_id, n - 1)

\* C18: the parent relation on comments is a forest: no comment is its own
\* parent, and the parent references from every comment lead to a top-level
\* comment, so there is no cycle.
C18_CommentsFormForest ==
    \A c \in DOMAIN comments :
        /\ comments[c].parent_comment_id # c
        /\ ReachesTopLevel(comments, c, Cardinality(DOMAIN comments))

\* C19: deleting a record deletes no comment of another record: the comments
\* whose record_id is not the deleted record are the same before and after
\* (a reply being attached to the record of its parent).
C19_RecordDeleteKeepsOtherRecordsComments ==
    [][(last'.op = "record_delete" /\ last'.status = 204)
            => \A c \in DOMAIN comments :
                   comments[c].record_id # last'.key
                       => /\ c \in DOMAIN comments'
                          /\ comments'[c] = comments[c]]_vars

\* ------------------------------------------- referential integrity: claims

\* a reference is null or the key of a stored row
RefersInto(ref, table) == ref = NULL \/ ref \in DOMAIN table

ReferentialIntegrity ==
    /\ \A u \in DOMAIN users : RefersInto(users[u].team, teams)
    /\ \A t \in DOMAIN teams : RefersInto(teams[t].team_lead, users)
    /\ \A x \in DOMAIN subsystems : RefersInto(subsystems[x].parent_team, teams)
    /\ \A r \in DOMAIN records : RefersInto(records[r].subsystem, subsystems)
    /\ \A c \in DOMAIN comments :
        /\ comments[c].record_id \in DOMAIN records
        /\ RefersInto(comments[c].parent_comment_id, comments)
        /\ RefersInto(comments[c].commenter, users)

====
